---- MODULE Spec2Model ----
(***************************************************************************)
(* Model of doot.TaskManager (src/doot.py): task registration through the  *)
(* `task` decorator and dispatch through `exec`.                           *)
(*                                                                         *)
(* Python strings are sequences of one-character strings, so that          *)
(* str.replace, str.split and the prefix tests argparse makes on command   *)
(* line tokens are computed and not assumed.                               *)
(***************************************************************************)
EXTENDS Integers, Sequences, FiniteSets, TLC

VARIABLES
    dupParserRaises, \* does add_parser reject a name it already has (Python >= 3.11)
    sysargv,         \* sys.argv[1:] of the process
    parsers,         \* heap of subcommand parsers, indexed by object identity
    subparsers,      \* self.subparser._name_parser_map : name -> parser identity
    tasks,           \* self.tasks : name -> Task
    taskKeys,        \* insertion order of the keys of self.tasks
    log,             \* what the last operation passed to self.logfunc
    out,             \* what argparse wrote to stdout / stderr in the last operation
    nreg,            \* applications of the task decorator so far
    calls,           \* invocations of task callables made by the last operation
    last,            \* how the last operation ended
    lib,             \* the last call of arg, grp, muxgrp, short_doc or run
    dockerman        \* the dockerman package: module attributes, config, commands

vars == <<dupParserRaises, sysargv, parsers, subparsers, tasks, taskKeys,
          log, out, nreg, calls, last, lib, dockerman>>

----------------------------------------------------------------------------
(* Bounds *)

MaxRegs == 2    \* applications of the task decorator in one run
MaxTail == 2    \* command line tokens after the first one
MaxItems == 2   \* items handed to grp or muxgrp
MaxDoc == 4     \* characters of a documentation string
MaxCmd == 4     \* characters of a command given to run as a string

----------------------------------------------------------------------------
(* Python values *)

None == [t |-> "none"]
Str(s) == [t |-> "str", s |-> s]
Bool(b) == [t |-> "bool", b |-> b]
List(l) == [t |-> "list", l |-> l]
Func(f) == [t |-> "func", f |-> f]
Namespace(ns) == [t |-> "namespace", ns |-> ns]

\* bool(v) for the values above
Truthy(v) ==
    CASE v.t = "none" -> FALSE
      [] v.t = "str" -> v.s # <<>>
      [] v.t = "bool" -> v.b
      [] v.t = "list" -> v.l # <<>>
      [] OTHER -> TRUE

----------------------------------------------------------------------------
(* Strings *)

IsPrefix(p, s) == Len(p) <= Len(s) /\ SubSeq(s, 1, Len(p)) = p

Drop(s, n) == SubSeq(s, n + 1, Len(s))

RECURSIVE Replace(_, _, _)
\* str.replace(old, new): leftmost non-overlapping occurrences, old non-empty
Replace(s, old, new) ==
    IF Len(s) < Len(old) THEN s
    ELSE IF IsPrefix(old, s)
         THEN new \o Replace(Drop(s, Len(old)), old, new)
         ELSE <<Head(s)>> \o Replace(Tail(s), old, new)

\* the hyphens before the colons
DeriveNameDashFirst(ident) == Replace(Replace(ident, <<"_">>, <<"-">>), <<"_", "_">>, <<":">>)

\* func.__name__.replace("__", ":").replace("_", "-")
DeriveName(ident) == Replace(Replace(ident, <<"_", "_">>, <<":">>), <<"_">>, <<"-">>)

\* index of the first occurrence of character c in s, 0 when absent
RECURSIVE IndexOf(_, _, _)
IndexOf(s, c, i) ==
    IF i > Len(s) THEN 0
    ELSE IF s[i] = c THEN i
    ELSE IndexOf(s, c, i + 1)

\* every trailing "." removed
ShortDocStripAll(doc) ==
    LET nl == IndexOf(doc, "\n", 1)
        first == IF nl = 0 THEN doc ELSE SubSeq(doc, 1, nl - 1)
        keep == {k \in 0..Len(first) : k = 0 \/ first[k] # "."}
        last_kept == CHOOSE k \in keep : \A j \in keep : j <= k
    IN SubSeq(first, 1, last_kept)

\* doc.split("\n")[0], then one trailing "." removed
ShortDoc(doc) ==
    LET nl == IndexOf(doc, "\n", 1)
        first == IF nl = 0 THEN doc ELSE SubSeq(doc, 1, nl - 1)
    IN IF first # <<>> /\ first[Len(first)] = "."
       THEN SubSeq(first, 1, Len(first) - 1)
       ELSE first

----------------------------------------------------------------------------
(* Command line tokens and names used by the declarations below *)

sHello == <<"h", "e", "l", "l", "o">>
sSuper == <<"s", "u", "p", "e", "r", "_", "_", "h", "e", "l", "l", "o", "_", "w", "o", "r", "l", "d">>
sTriple == <<"a", "_", "_", "_", "b">>
sHwo == <<"h", "e", "l", "l", "o", "_", "w", "o", "r", "l", "d", "_", "o", "n", "e">>
sReq == <<"r", "e", "q">>
sMux == <<"m", "u", "x">>
sMuxReq == <<"m", "u", "x", "_", "r", "e", "q">>
sOther == <<"o", "t", "h", "e", "r">>
sDflt == <<"d", "f", "l", "t">>
sHelp == <<"h", "e", "l", "p">>
sGrp == <<"g", "r", "p">>
sNest == <<"n", "e", "s", "t">>
sTitle == <<"o", "u", "t">>
sNonexistent == <<"n", "o", "n", "e", "x", "i", "s", "t", "e", "n", "t">>
sProg == <<"d", "o">>
sFunc == <<"f", "u", "n", "c">>
sBanner == <<"D", "o", "o", "t">>

tH == <<"-", "h">>
tHelpLong == <<"-", "-", "h", "e", "l", "p">>
tName == <<"-", "-", "n", "a", "m", "e">>
tD == <<"-", "d">>
tN == <<"-", "n">>
tW == <<"w">>
tSize == <<"-", "-", "s", "i", "z", "e">>
tColor == <<"-", "-", "c", "o", "l", "o", "r">>
tSizeL == <<"-", "-", "s", "i", "z", "e", "=", "L">>
tColorB == <<"-", "-", "c", "o", "l", "o", "r", "=", "b">>

sYay == <<"y", "a", "y">>
sWoot == <<"W", "o", "o", "t">>
sDocHello == <<"S", "a", "y", " ", "h", "e", "l", "l", "o", ".">>
sDocSuper == <<"G", "r", "e", "e", "t", ".", "\n", "L", "o", "n", "g", "e", "r", " ", "t", "e", "x", "t", ".">>

----------------------------------------------------------------------------
(* Argument, Group, MuxGroup *)

\* Argument.__init__: the descriptor keeps every keyword as given
Argument(flags, action, default, required) ==
    [cls |-> "Argument", args |-> flags, action |-> action, nargs |-> None,
     const |-> None, default |-> default, type |-> None, choices |-> None,
     required |-> required, help |-> None, metavar |-> None, dest |-> None]

\* Group.__init__ (the items are Arguments or MuxGroups)
Group(title, args) ==
    [cls |-> "Group", title |-> title, description |-> None, args |-> args]

\* MuxGroup.__init__ (the items are Arguments here)
MuxGroup(args, required) ==
    [cls |-> "MuxGroup", args |-> args, required |-> required]

----------------------------------------------------------------------------
(* Task callables: identity, __name__, number of parameters, __doc__ and   *)
(* the value the body returns                                              *)

Callable(id, ident, nparams, doc, ret) ==
    [id |-> id, ident |-> ident, nparams |-> nparams, doc |-> doc, ret |-> ret]

fHello    == Callable(1, sHello, 0, None, Str(sYay))
fSuper    == Callable(2, sSuper, 1, Str(sDocSuper), Str(sSuper))
fTriple   == Callable(3, sTriple, 2, Str(sDocHello), Str(sTriple))
fHwo      == Callable(4, sHwo, 2, None, Str(sHwo))
fReq      == Callable(5, sReq, 1, None, Str(sReq))
fMux      == Callable(6, sMux, 2, None, Str(sMux))
fMuxReq   == Callable(7, sMuxReq, 1, None, Str(sMuxReq))
fThree    == Callable(8, sHello, 3, None, Str(sNonexistent))
fOther    == Callable(9, sOther, 0, Str(sDocHello), Str(sOther))
fDflt     == Callable(10, sDflt, 1, None, Str(sDflt))
fGrp      == Callable(11, sGrp, 1, None, Str(sGrp))
fNest     == Callable(12, sNest, 1, None, Str(sNest))
fHelp     == Callable(13, sHelp, 0, None, Str(sHelp))

Callables == {fHello, fSuper, fTriple, fHwo, fReq, fMux, fMuxReq, fThree,
              fOther, fDflt, fGrp, fNest, fHelp}

\* one application of the decorator: task(*arguments, name, allow_extra)(func)
Decl(func, arguments, name, allow_extra) ==
    [func |-> func, arguments |-> arguments, name |-> name,
     allow_extra |-> allow_extra]

aName    == Argument(<<tName>>, "None", None, FALSE)
aNameReq == Argument(<<tName>>, "None", None, TRUE)
aD       == Argument(<<tD>>, "store_true", None, FALSE)
aSize    == Argument(<<tSize>>, "None", None, FALSE)
aColor   == Argument(<<tColor>>, "None", None, FALSE)
aNWoot   == Argument(<<tN>>, "None", Str(sWoot), FALSE)
aDTrue   == Argument(<<tD>>, "store_true", Bool(TRUE), FALSE)

Decls ==
    { Decl(fHello, <<>>, None, FALSE),
      Decl(fSuper, <<aName, aD>>, None, FALSE),
      Decl(fTriple, <<>>, None, TRUE),
      Decl(fHwo, <<aName, aD>>, None, TRUE),
      Decl(fReq, <<aNameReq>>, None, FALSE),
      Decl(fMux, <<aD, MuxGroup(<<aSize, aColor>>, FALSE)>>, None, FALSE),
      Decl(fMuxReq, <<MuxGroup(<<aSize, aColor>>, TRUE)>>, None, FALSE),
      Decl(fThree, <<>>, None, FALSE),
      Decl(fOther, <<>>, Str(sHello), TRUE),
      Decl(fDflt, <<aNWoot, aDTrue>>, None, FALSE),
      Decl(fGrp, <<Group(sTitle, <<aSize, aD>>)>>, None, FALSE),
      Decl(fNest, <<Group(sTitle, <<MuxGroup(<<aSize, aColor>>, FALSE)>>)>>,
           None, FALSE),
      Decl(fHelp, <<>>, None, FALSE) }

----------------------------------------------------------------------------
(* argparse: building a subcommand parser *)

AllKeys == {"action", "nargs", "const", "default", "type", "choices",
            "required", "help", "metavar", "dest"}

\* keywords the constructor of each action class accepts
AcceptedKeys(kind) ==
    IF kind \in {"store_true", "store_false", "count"}
    THEN {"action", "default", "required", "help", "dest"}
    ELSE IF kind \in {"store_const", "append_const"}
    THEN {"action", "const", "default", "required", "help", "metavar", "dest"}
    ELSE AllKeys

\* default of an action that was given no `default` keyword
ClassDefault(kind) ==
    IF kind = "store_true" THEN Bool(FALSE)
    ELSE IF kind = "store_false" THEN Bool(TRUE)
    ELSE None

RECURSIVE LStripDash(_)
LStripDash(s) == IF s # <<>> /\ Head(s) = "-" THEN LStripDash(Tail(s)) ELSE s

IsLong(f) == IsPrefix(<<"-", "-">>, f)

\* dest of an optional: its first long option string, else its first option
\* string, without the leading dashes and with "-" turned into "_"
DestOf(flags) ==
    LET long == SelectSeq(flags, IsLong)
        f == IF long # <<>> THEN long[1] ELSE flags[1]
    IN Replace(LStripDash(f), <<"-">>, <<"_">>)

\* the option strings a parser already knows
OptionStrings(p) ==
    UNION { {p.actions[i].option_strings[j] :
                j \in 1..Len(p.actions[i].option_strings)} :
            i \in 1..Len(p.actions) }

helpAction ==
    [option_strings |-> <<tH, tHelpLong>>, dest |-> sHelp, kind |-> "help",
     default |-> None, required |-> FALSE, group |-> 2, mux |-> 0]

\* self.subparser.add_parser(task_name, ...) followed by set_defaults(func=func)
NewParser(task_name, func) ==
    [prog |-> <<sProg, task_name>>, func |-> func, actions |-> <<helpAction>>,
     groups |-> <<[title |-> "positional arguments", members |-> <<>>],
                  [title |-> "options", members |-> <<1>>]>>,
     mutex |-> <<>>]

\* add_argument(*flags, **kw) on the argument group gi of parser p, inside the
\* mutually exclusive group mi when mi > 0
AddArgument(p, flags, kw, gi, mi) ==
    LET kind == IF kw.action = "None" THEN "store" ELSE kw.action
        required == IF "required" \in DOMAIN kw THEN kw.required ELSE FALSE
        idx == Len(p.actions) + 1
        dest == IF "dest" \in DOMAIN kw /\ kw.dest # None
                THEN kw.dest.s ELSE DestOf(flags)
        act == [option_strings |-> flags,
                dest |-> dest,
                kind |-> kind,
                default |-> IF "default" \in DOMAIN kw THEN kw.default
                            ELSE IF dest = sFunc THEN Func(p.func)
                            ELSE ClassDefault(kind),
                required |-> required, group |-> gi, mux |-> mi]
    IN IF ~(DOMAIN kw \subseteq AcceptedKeys(kind))
       THEN [exc |-> "TypeError", parser |-> p]
       ELSE IF \E j \in 1..Len(flags) : flags[j] \in OptionStrings(p)
       THEN [exc |-> "ArgumentError", parser |-> p]
       ELSE IF mi > 0 /\ required
       THEN [exc |-> "ValueError", parser |-> p]
       ELSE [exc |-> "",
             parser |->
               [p EXCEPT !.actions = Append(@, act),
                         !.groups[gi].members = Append(@, idx),
                         !.mutex = IF mi > 0
                                   THEN [@ EXCEPT ![mi].members = Append(@, idx)]
                                   ELSE @]]

----------------------------------------------------------------------------
(* TaskManager.task *)

\* the keywords of a direct Argument, `required` left out
DirectKwargsNoRequired(item) ==
    LET opt(k) == IF item[k] # None THEN {k} ELSE {}
        keys == {"action"} \cup opt("help") \cup opt("dest")
                \cup (IF item.action \notin {"store_true", "store_false"}
                      THEN opt("const")
                           \cup (IF item.action \notin {"store_const", "append_const"}
                                 THEN opt("nargs") \cup opt("default") \cup opt("type")
                                      \cup opt("choices") \cup opt("metavar")
                                 ELSE {})
                      ELSE {})
    IN [k \in keys |-> item[k]]

\* lines 159-184: the keywords handed over for an Argument given directly
DirectKwargs(item) ==
    LET opt(k) == IF item[k] # None THEN {k} ELSE {}
        keys == {"action"} \cup opt("help") \cup opt("dest")
                \cup (IF item.required THEN {"required"} ELSE {})
                \cup (IF item.action \notin {"store_true", "store_false"}
                      THEN opt("const")
                           \cup (IF item.action \notin {"store_const", "append_const"}
                                 THEN opt("nargs") \cup opt("default") \cup opt("type")
                                      \cup opt("choices") \cup opt("metavar")
                                 ELSE {})
                      ELSE {})
    IN [k \in keys |-> item[k]]

\* lines 144-157: the keywords handed over for an Argument inside a group
GroupKwargs(arg) == [k \in AllKeys |-> arg[k]]

RECURSIVE AddGroupArgs(_, _, _, _)
\* lines 143-157: every item of a Group or MuxGroup, in order; an item that
\* is not an Argument has no `action` attribute to read
AddGroupArgs(p, args, gi, mi) ==
    IF args = <<>> THEN [exc |-> "", parser |-> p]
    ELSE IF Head(args).cls # "Argument"
    THEN [exc |-> "AttributeError", parser |-> p]
    ELSE LET r == AddArgument(p, Head(args).args, GroupKwargs(Head(args)), gi, mi)
         IN IF r.exc # "" THEN r ELSE AddGroupArgs(r.parser, Tail(args), gi, mi)

\* a mutually exclusive group that is never required
NewMutexNeverRequired(p, item) ==
    [p EXCEPT !.mutex = Append(@, [required |-> FALSE, members |-> <<>>])]

\* lines 139-141: parser.add_mutually_exclusive_group(required=item.required)
NewMutex(p, item) ==
    [p EXCEPT !.mutex = Append(@, [required |-> item.required, members |-> <<>>])]

\* lines 133-137: parser.add_argument_group(title=..., description=...)
NewGroup(p, item) ==
    [p EXCEPT !.groups = Append(@, [title |-> item.title, members |-> <<>>])]

RECURSIVE AddItems(_, _)
\* lines 130-185: the loop over the decorator's arguments; it stops at the
\* first add_argument that raises and leaves the parser as built so far
AddItems(p, items) ==
    IF items = <<>> THEN [exc |-> "", parser |-> p]
    ELSE LET item == Head(items)
             r == IF item.cls = "Group"
                  THEN AddGroupArgs(NewGroup(p, item), item.args,
                                    Len(p.groups) + 1, 0)
                  ELSE IF item.cls = "MuxGroup"
                  THEN AddGroupArgs(NewMutex(p, item), item.args, 2,
                                    Len(p.mutex) + 1)
                  ELSE AddArgument(p, item.args, DirectKwargs(item), 2, 0)
         IN IF r.exc # "" THEN r ELSE AddItems(r.parser, Tail(items))

\* Task.validate_and_get_num_args
ValidateAndGetNumArgs(func) ==
    IF func.nparams > 2
    THEN [exc |-> "InvalidArgumentCountException", num_args |-> func.nparams]
    ELSE [exc |-> "", num_args |-> func.nparams]

\* Task.__init__
Task(name, func, parser, allow_extra, doc) ==
    [allow_extra |-> allow_extra, name |-> name, func |-> func,
     num_args |-> ValidateAndGetNumArgs(func).num_args,
     doc |-> IF Truthy(doc) THEN doc.s ELSE <<>>, parser |-> parser]

\* f with key k bound to v
Put(f, k, v) == [x \in DOMAIN f \cup {k} |-> IF x = k THEN v ELSE f[x]]

Outcome(op, kind, exc, status, value, decl, argv) ==
    [op |-> op, kind |-> kind, exc |-> exc, status |-> status, value |-> value,
     decl |-> decl, argv |-> argv]

\* name or func.__name__.replace("__", ":").replace("_", "-")
TaskName(d) == IF Truthy(d.name) THEN d.name.s ELSE DeriveName(d.func.ident)

\* task(*d.arguments, name=d.name, allow_extra=d.allow_extra)(d.func)
Register(d) ==
    /\ last.kind # "exit"
    /\ last.op # "exec"
    /\ nreg < MaxRegs
    /\ nreg' = nreg + 1
    /\ LET task_name == TaskName(d)
           pid == Len(parsers) + 1
           built == AddItems(NewParser(task_name, d.func), d.arguments)
           arity == ValidateAndGetNumArgs(d.func)
           raised(exc) == Outcome("task", "raise", exc, 0, None, d, None)
       IN IF dupParserRaises /\ task_name \in DOMAIN subparsers
          THEN /\ last' = raised("ArgumentError")
               /\ UNCHANGED <<parsers, subparsers, tasks, taskKeys>>
          ELSE /\ parsers' = Append(parsers, built.parser)
               /\ subparsers' = Put(subparsers, task_name, pid)
               /\ IF built.exc # ""
                  THEN /\ last' = raised(built.exc)
                       /\ UNCHANGED <<tasks, taskKeys>>
                  ELSE IF arity.exc # ""
                  THEN /\ last' = raised(arity.exc)
                       /\ UNCHANGED <<tasks, taskKeys>>
                  ELSE /\ tasks' = Put(tasks, task_name,
                                       Task(task_name, d.func, pid,
                                            d.allow_extra, d.func.doc))
                       /\ taskKeys' = IF task_name \in DOMAIN tasks
                                      THEN taskKeys
                                      ELSE Append(taskKeys, task_name)
                       /\ last' = Outcome("task", "return", "", 0, None, d, None)
    /\ log' = <<>>
    /\ out' = <<>>
    /\ calls' = <<>>
    /\ UNCHANGED <<dockerman, dupParserRaises, sysargv, lib>>

----------------------------------------------------------------------------
(* argparse: parsing the tokens that follow the subcommand name.  Tokens   *)
(* with a blank, negative numbers, "--" and clusters of one-letter options *)
(* are outside the token alphabet of this model.                           *)

Printed(stream, what, prog, msg, detail) ==
    [stream |-> stream, what |-> what, prog |-> prog, msg |-> msg,
     detail |-> detail]

\* the part of an option token before its first "="
BeforeEq(tok) ==
    LET eq == IndexOf(tok, "=", 1)
    IN IF eq = 0 THEN tok ELSE SubSeq(tok, 1, eq - 1)

\* the explicit argument of an option token: what follows its first "="
AfterEq(tok) ==
    LET eq == IndexOf(tok, "=", 1)
    IN IF eq = 0 THEN None ELSE Str(Drop(tok, eq))

\* actions of p having the option string s
ActionsWith(p, s) ==
    {i \in 1..Len(p.actions) :
        \E j \in 1..Len(p.actions[i].option_strings) :
            p.actions[i].option_strings[j] = s}

\* actions of p one of whose option strings begins with s
ActionsAbbreviatedBy(p, s) ==
    {i \in 1..Len(p.actions) :
        \E j \in 1..Len(p.actions[i].option_strings) :
            IsPrefix(s, p.actions[i].option_strings[j])}

\* _parse_optional: "A" for an argument, "O" for an option the parser does
\* not know, "opt" for one it knows, "ambiguous" for an ambiguous prefix
Classify(p, tok) ==
    LET A == [cls |-> "A", idx |-> 0, explicit |-> None]
    IN IF tok = <<>> \/ Head(tok) # "-" THEN A
       ELSE IF ActionsWith(p, tok) # {}
       THEN [cls |-> "opt", idx |-> CHOOSE i \in ActionsWith(p, tok) : TRUE,
             explicit |-> None]
       ELSE IF Len(tok) = 1 THEN A
       ELSE IF ActionsWith(p, BeforeEq(tok)) # {} /\ AfterEq(tok) # None
       THEN [cls |-> "opt",
             idx |-> CHOOSE i \in ActionsWith(p, BeforeEq(tok)) : TRUE,
             explicit |-> AfterEq(tok)]
       ELSE IF Cardinality(ActionsAbbreviatedBy(p, BeforeEq(tok))) > 1
       THEN [cls |-> "ambiguous", idx |-> 0, explicit |-> None]
       ELSE IF Cardinality(ActionsAbbreviatedBy(p, BeforeEq(tok))) = 1
       THEN [cls |-> "opt",
             idx |-> CHOOSE i \in ActionsAbbreviatedBy(p, BeforeEq(tok)) : TRUE,
             explicit |-> AfterEq(tok)]
       ELSE [cls |-> "O", idx |-> 0, explicit |-> None]

\* the namespace before any token is read: the default of every action that
\* has one to give, then the parser's own defaults (func) where still unset
InitialNamespace(p) ==
    LET idxs == {i \in 1..Len(p.actions) : p.actions[i].kind # "help"}
        dests == {p.actions[i].dest : i \in idxs}
        first(d) == CHOOSE i \in idxs :
                       /\ p.actions[i].dest = d
                       /\ \A j \in idxs : p.actions[j].dest = d => i <= j
    IN [d \in dests \cup {sFunc} |->
           IF d \in dests THEN p.actions[first(d)].default ELSE Func(p.func)]

ParseError(p, msg, tok) ==
    [status |-> "error", ns |-> <<>>, extras |-> <<>>,
     printed |-> <<Printed("stderr", "usage", p.prog, "", <<>>),
                   Printed("stderr", "error", p.prog, msg, <<tok>>)>>]

\* the checks made once every token is consumed: required arguments, then
\* required mutually exclusive groups
ParseFinish(p, st) ==
    LET missing == {i \in 1..Len(p.actions) :
                       p.actions[i].required /\ i \notin st.seen}
        unmet == {g \in 1..Len(p.mutex) :
                     /\ p.mutex[g].required
                     /\ \A k \in 1..Len(p.mutex[g].members) :
                           p.mutex[g].members[k] \notin st.seen}
    IN IF missing # {}
       THEN ParseError(p, "the following arguments are required",
                       p.actions[CHOOSE i \in missing : TRUE].option_strings[1])
       ELSE IF unmet # {}
       THEN ParseError(p, "one of the arguments is required", <<>>)
       ELSE [status |-> "ok", ns |-> st.ns, extras |-> st.extras,
             printed |-> <<>>]

RECURSIVE ParseFrom(_, _, _, _)
\* the subcommand parser's parse_known_args, from token i on
ParseFrom(p, toks, i, st) ==
    IF i > Len(toks) THEN ParseFinish(p, st)
    ELSE
    LET tok == toks[i]
        c == Classify(p, tok)
        a == p.actions[c.idx]
        clash == a.mux > 0 /\ \E k \in 1..Len(p.mutex[a.mux].members) :
                     /\ p.mutex[a.mux].members[k] # c.idx
                     /\ p.mutex[a.mux].members[k] \in st.seen
        hasNext == i < Len(toks) /\ Classify(p, toks[i + 1]).cls = "A"
        taken(v, n) == ParseFrom(p, toks, n,
                          [st EXCEPT !.ns[a.dest] = v, !.seen = @ \cup {c.idx}])
    IN IF c.cls = "ambiguous"
       THEN ParseError(p, "ambiguous option", tok)
       ELSE IF c.cls # "opt"
       THEN ParseFrom(p, toks, i + 1, [st EXCEPT !.extras = Append(@, tok)])
       ELSE IF a.kind \in {"help", "store_true"} /\ c.explicit # None
       THEN ParseError(p, "ignored explicit argument", tok)
       ELSE IF a.kind = "help"
       THEN [status |-> "help", ns |-> <<>>, extras |-> <<>>,
             printed |-> <<Printed("stdout", "help", p.prog, "", <<>>)>>]
       ELSE IF a.kind = "store" /\ c.explicit = None /\ ~hasNext
       THEN ParseError(p, "expected one argument", tok)
       ELSE IF clash
       THEN ParseError(p, "not allowed with argument", tok)
       ELSE IF a.kind = "store_true"
       THEN taken(Bool(TRUE), i + 1)
       ELSE IF c.explicit # None
       THEN taken(c.explicit, i + 1)
       ELSE taken(Str(toks[i + 1]), i + 2)

\* parse_known_args of the subcommand parser p
ParseKnownArgs(p, toks) ==
    ParseFrom(p, toks, 1, [ns |-> InitialNamespace(p), seen |-> {}, extras |-> <<>>])

\* self.parser.parse_known_args(args): the top-level parser hands the tokens
\* after the name to the subcommand parser registered under args[0]
TopParseKnownArgs(heap, args) ==
    ParseKnownArgs(heap[subparsers[args[1]]], Tail(args))

\* self.parser.parse_args(args): as above, and left-over tokens are an error
\* reported by the top-level parser
TopParseArgs(heap, args) ==
    LET r == TopParseKnownArgs(heap, args)
    IN IF r.status = "ok" /\ r.extras # <<>>
       THEN [status |-> "error", ns |-> <<>>, extras |-> <<>>,
             printed |-> <<Printed("stderr", "usage", <<sProg>>, "", <<>>),
                           Printed("stderr", "error", <<sProg>>,
                                   "unrecognized arguments", r.extras)>>]
       ELSE r

----------------------------------------------------------------------------
(* TaskManager.log and its callers *)

\* log(msg, color): one call of self.logfunc; the message is kept as its
\* format and the values substituted into it
Logged(color, fmt, a, b) == [color |-> color, fmt |-> fmt, a |-> a, b |-> b]

\* the loop of print_help over self.tasks.items(), in insertion order
RECURSIVE Listing(_)
Listing(keys) ==
    IF keys = <<>> THEN <<>>
    ELSE <<Logged("0", " {name:<22} {task.short_doc}", Head(keys),
                  ShortDoc(tasks[Head(keys)].doc))>> \o Listing(Tail(keys))

\* print_help that writes the banner even when it is empty
PrintHelpAlwaysBanner(name, splash, show_usage) ==
    <<Logged("96", "{splash}", splash, <<>>), Logged("0", "", <<>>, <<>>)>>
    \o (IF show_usage THEN <<Logged("0", "Usage: {name} [task]\n", name, <<>>)>>
        ELSE <<>>)
    \o <<Logged("0", "Available tasks:\n", <<>>, <<>>)>>
    \o Listing(taskKeys)
    \o <<Logged("0", "", <<>>, <<>>)>>

\* print_help(name, splash, show_usage): what it logs
PrintHelp(name, splash, show_usage) ==
    (IF splash # <<>>
     THEN <<Logged("96", "{splash}", splash, <<>>), Logged("0", "", <<>>, <<>>)>>
     ELSE <<>>)
    \o (IF show_usage THEN <<Logged("0", "Usage: {name} [task]\n", name, <<>>)>>
        ELSE <<>>)
    \o <<Logged("0", "Available tasks:\n", <<>>, <<>>)>>
    \o Listing(taskKeys)
    \o <<Logged("0", "", <<>>, <<>>)>>

\* error(msg)
ErrorLine(fmt, a) == Logged("91", fmt, a, <<>>)

----------------------------------------------------------------------------
(* Task.__call__ *)

Invocation(func, args, value) == [func |-> func, args |-> args, value |-> value]

\* hands the extra list to one-parameter callables too
TaskCallAlwaysExtra(task, opt, extra) ==
    LET e == IF extra = None THEN List(<<>>) ELSE extra
    IN IF task.num_args >= 1
       THEN Invocation(task.func, <<opt, e>>, task.func.ret)
       ELSE Invocation(task.func, <<>>, task.func.ret)

\* loses the value the callable returned
TaskCallDropsValue(task, opt, extra) ==
    LET e == IF extra = None THEN List(<<>>) ELSE extra
    IN IF task.num_args = 2
       THEN Invocation(task.func, <<opt, e>>, None)
       ELSE IF task.num_args = 1
       THEN Invocation(task.func, <<opt>>, None)
       ELSE Invocation(task.func, <<>>, None)

\* invokes the callable the parser left in the options object
TaskCallParserFunc(task, opt, extra) ==
    LET e == IF extra = None THEN List(<<>>) ELSE extra
        f == opt.ns[sFunc].f
    IN IF task.num_args = 2
       THEN Invocation(f, <<opt, e>>, f.ret)
       ELSE IF task.num_args = 1
       THEN Invocation(f, <<opt>>, f.ret)
       ELSE Invocation(f, <<>>, f.ret)

\* task(opt, extra): the invocation of the callable and the value it returns
TaskCall(task, opt, extra) ==
    LET e == IF extra = None THEN List(<<>>) ELSE extra
    IN IF task.num_args = 2
       THEN Invocation(task.func, <<opt, e>>, task.func.ret)
       ELSE IF task.num_args = 1
       THEN Invocation(task.func, <<opt>>, task.func.ret)
       ELSE Invocation(task.func, <<>>, task.func.ret)

----------------------------------------------------------------------------
(* TaskManager.exec *)

SeqsUpTo(S, n) == UNION {[1..k -> S] : k \in 0..n}

\* tokens that may follow a task name
TailTokens == {tName, tW, tD, tN, tH, tSizeL, tColorB}

\* argument vectors handed to exec
ArgVectors ==
    {<<>>}
    \cup {<<c>> \o t : c \in {tH, sHelp},
                      t \in SeqsUpTo(DOMAIN tasks \cup {sNonexistent}, MaxTail)}
    \cup {<<c>> \o t : c \in DOMAIN tasks, t \in SeqsUpTo(TailTokens, MaxTail)}
    \cup {<<c>> \o t : c \in (DOMAIN subparsers \ DOMAIN tasks) \cup {sNonexistent},
                      t \in SeqsUpTo({tW}, MaxTail)}

ExecInputs == {None} \cup {List(v) : v \in ArgVectors}

Splashes == {Str(<<>>), Str(sBanner)}

\* args or sys.argv[1:]
EffectiveArgs(argsIn) == IF Truthy(argsIn) THEN argsIn.l ELSE sysargv

\* no extra list for any task
ExecExtraNone(task, r) == List(<<>>)

\* lines 522-525: the extra list exec hands to the task
ExecExtra(task, r) == IF task.allow_extra THEN List(r.extras) ELSE List(<<>>)

\* exit status of a parser error reported as 1
ParseExitStatusOne(r) == IF r.status = "help" THEN 0 ELSE 1

\* the status ArgumentParser exits with: 0 after printing help, 2 on an error
ParseExitStatus(r) == IF r.status = "help" THEN 0 ELSE 2

\* looks the topic up at the position of the help word itself
HelpOfTaskFirst(args) == Len(args) > 1 /\ args[1] \in DOMAIN tasks

\* lines 501-507: the help form is followed by the name of a registered task
HelpOfTask(args) == Len(args) > 1 /\ args[2] \in DOMAIN tasks

\* exec(args=argsIn, name=None, splash=splash)
Exec(argsIn, splash) ==
    /\ last.kind # "exit"
    /\ last.op # "exec"
    /\ LET name == sProg
           splash_str == IF Truthy(splash) THEN splash.s ELSE <<>>
           args == EffectiveArgs(argsIn)
           owner(i) == {n \in DOMAIN tasks : tasks[n].parser = i}
           heap == [i \in DOMAIN parsers |->
                      IF owner(i) # {}
                      THEN [parsers[i] EXCEPT
                              !.prog = <<name, CHOOSE n \in owner(i) : TRUE>>]
                      ELSE parsers[i]]
           ended(kind, status, value) ==
               Outcome("exec", kind, IF kind = "exit" THEN "SystemExit" ELSE "",
                       status, value, None, argsIn)
       IN /\ parsers' = heap
          /\ IF args = <<>> \/ args[1] \in {tH, sHelp}
             THEN IF HelpOfTask(args)
                  THEN /\ out' = <<Printed("stdout", "help",
                                           heap[tasks[args[2]].parser].prog,
                                           "", <<>>)>>
                       /\ log' = <<>>
                       /\ calls' = <<>>
                       /\ last' = ended("return", 0, None)
                  ELSE /\ log' = PrintHelp(name, splash_str, TRUE)
                       /\ out' = <<>>
                       /\ calls' = <<>>
                       /\ last' = ended("return", 0, None)
             ELSE IF args[1] \notin DOMAIN tasks
             THEN /\ log' = <<ErrorLine("ERROR: Invalid command: {args[0]}\n", args[1])>>
                            \o PrintHelp(name, <<>>, FALSE)
                  /\ out' = <<>>
                  /\ calls' = <<>>
                  /\ last' = ended("exit", 1, None)
             ELSE LET task == tasks[args[1]]
                      r == IF task.allow_extra
                           THEN TopParseKnownArgs(heap, args)
                           ELSE TopParseArgs(heap, args)
                      extra == ExecExtra(task, r)
                      call == TaskCall(task, Namespace(r.ns), extra)
                  IN IF r.status # "ok"
                     THEN /\ out' = r.printed
                          /\ log' = <<>>
                          /\ calls' = <<>>
                          /\ last' = ended("exit", ParseExitStatus(r), None)
                     ELSE IF ~Truthy(r.ns[sFunc])
                     THEN /\ log' = <<ErrorLine("ERROR: function not defined for task {task}.",
                                                task.name)>>
                          /\ out' = <<>>
                          /\ calls' = <<>>
                          /\ last' = ended("exit", 1, None)
                     ELSE /\ calls' = <<call>>
                          /\ log' = <<>>
                          /\ out' = <<>>
                          /\ last' = ended("return", 0, call.value)
    /\ UNCHANGED <<dockerman, dupParserRaises, sysargv, subparsers, tasks, taskKeys, nreg,
                   lib>>

\* exec has returned and its caller goes on
ReturnToCaller ==
    /\ last.op = "exec"
    /\ last.kind = "return"
    /\ last' = Outcome("none", "none", "", 0, None, None, None)
    /\ log' = <<>>
    /\ out' = <<>>
    /\ calls' = <<>>
    /\ UNCHANGED <<dockerman, dupParserRaises, sysargv, parsers, subparsers, tasks,
                   taskKeys, nreg, lib>>

----------------------------------------------------------------------------
(* The descriptor constructors, Task.short_doc and TaskManager.run, called  *)
(* on their own                                                            *)

\* how a call ended: the value returned or the exception raised, the state
\* of the caller's list argument afterwards, and what the call did, in order
LibOutcome(op, kind, exc, input, value, after, trace) ==
    [op |-> op, kind |-> kind, exc |-> exc, input |-> input, value |-> value,
     after |-> after, trace |-> trace]

NoLib == LibOutcome("none", "none", "", None, None, None, <<>>)

\* TaskManager.arg(*flags): Argument.__init__ stores what it is given
ArgInit(flags) == [exc |-> "", value |-> Argument(flags, "None", None, FALSE)]

\* Group.__init__ without the loop over its items
GroupInitUnchecked(title, items) == [exc |-> "", value |-> Group(title, items)]

\* Group.__init__: rejects an item that is a Group
GroupInit(title, items) ==
    IF \E i \in 1..Len(items) : items[i].cls = "Group"
    THEN [exc |-> "ValueError", value |-> None]
    ELSE [exc |-> "", value |-> Group(title, items)]

\* MuxGroup.__init__: rejects an item that is a Group or a MuxGroup
MuxGroupInit(items, required) ==
    IF \E i \in 1..Len(items) : items[i].cls \in {"Group", "MuxGroup"}
    THEN [exc |-> "ValueError", value |-> None]
    ELSE [exc |-> "", value |-> MuxGroup(items, required)]


FlagLists == {<<>>, <<tName>>, <<tN, tName>>}

\* what a caller can hand to grp or muxgrp: an argument, and the descriptor
\* the previous call returned
Items ==
    {aName}
    \cup (IF lib.op \in {"arg", "grp", "muxgrp"} /\ lib.kind = "return"
          THEN {lib.value} ELSE {})

CanConstruct == lib.op \in {"none", "arg", "grp", "muxgrp"} /\ lib.kind # "raise"

Constructed(op, input, r) ==
    LibOutcome(op, IF r.exc = "" THEN "return" ELSE "raise", r.exc, input,
               r.value, None, <<>>)

\* do.arg(*flags)
MakeArg(flags) ==
    /\ lib.op = "none"
    /\ lib' = Constructed("arg", flags, ArgInit(flags))
    /\ UNCHANGED <<dockerman, dupParserRaises, sysargv, parsers, subparsers, tasks,
                   taskKeys, log, out, nreg, calls, last>>

\* do.grp(title, *items)
MakeGrp(items) ==
    /\ CanConstruct
    /\ lib' = Constructed("grp", items, GroupInit(sTitle, items))
    /\ UNCHANGED <<dockerman, dupParserRaises, sysargv, parsers, subparsers, tasks,
                   taskKeys, log, out, nreg, calls, last>>

\* do.muxgrp(*items, required=required)
MakeMuxGrp(items, required) ==
    /\ CanConstruct
    /\ lib' = Constructed("muxgrp", items, MuxGroupInit(items, required))
    /\ UNCHANGED <<dockerman, dupParserRaises, sysargv, parsers, subparsers, tasks,
                   taskKeys, log, out, nreg, calls, last>>

\* documentation strings: none, or text over a letter, the period and the
\* line break
DocChars == {"a", ".", "\n"}

Docs == {None} \cup {Str(d) : d \in SeqsUpTo(DocChars, MaxDoc)}

\* a callable with the documentation string doc
DocCallable(doc) == Callable(0, sOther, 0, doc, None)

\* Task(name, func, parser, doc=func.__doc__).short_doc
TaskShortDoc(doc) ==
    /\ lib.op = "none"
    /\ LET func == DocCallable(doc)
           task == Task(DeriveName(func.ident), func, 0, FALSE, func.doc)
       IN lib' = LibOutcome("short_doc", "return", "", doc,
                            Str(ShortDoc(task.doc)), None, <<>>)
    /\ UNCHANGED <<dockerman, dupParserRaises, sysargv, parsers, subparsers, tasks,
                   taskKeys, log, out, nreg, calls, last>>

\* characters of a command line: a letter, the blank and the double quote
CmdChars == {"a", " ", "\""}

RECURSIVE ShlexRead(_, _, _, _, _)
\* shlex.shlex(s, posix=False) with whitespace_split set, as shlex.split runs
\* it: state " " between tokens, "a" inside a word, "\"" inside a quotation
\* that began a token
ShlexRead(s, i, state, token, acc) ==
    IF i > Len(s)
    THEN IF state = "\"" THEN [exc |-> "ValueError", tokens |-> <<>>]
         ELSE IF state = "a" THEN [exc |-> "", tokens |-> Append(acc, token)]
         ELSE [exc |-> "", tokens |-> acc]
    ELSE LET c == s[i]
         IN IF state = " "
            THEN IF c = " " THEN ShlexRead(s, i + 1, " ", <<>>, acc)
                 ELSE IF c = "\"" THEN ShlexRead(s, i + 1, "\"", <<c>>, acc)
                 ELSE ShlexRead(s, i + 1, "a", <<c>>, acc)
            ELSE IF state = "\""
            THEN IF c = "\""
                 THEN ShlexRead(s, i + 1, " ", <<>>, Append(acc, Append(token, c)))
                 ELSE ShlexRead(s, i + 1, "\"", Append(token, c), acc)
            ELSE IF c = " "
                 THEN ShlexRead(s, i + 1, " ", <<>>, Append(acc, token))
                 ELSE ShlexRead(s, i + 1, "a", Append(token, c), acc)

\* shlex.split(s, posix=False)
ShlexSplit(s) == ShlexRead(s, 1, " ", <<>>, <<>>)

RECURSIVE EscapeQuotes(_)
\* list2cmdline on the characters of one token: a double quote gets a
\* backslash in front
EscapeQuotes(tok) ==
    IF tok = <<>> THEN <<>>
    ELSE (IF Head(tok) = "\"" THEN <<"\\", "\"">> ELSE <<Head(tok)>>)
         \o EscapeQuotes(Tail(tok))

RECURSIVE List2Cmdline(_)
\* subprocess.list2cmdline: tokens joined by blanks, an empty token or one
\* with a blank wrapped in double quotes
List2Cmdline(tokens) ==
    IF tokens = <<>> THEN <<>>
    ELSE LET tok == Head(tokens)
             needquote == tok = <<>> \/ \E k \in 1..Len(tok) : tok[k] = " "
             one == IF needquote
                    THEN <<"\"">> \o EscapeQuotes(tok) \o <<"\"">>
                    ELSE EscapeQuotes(tok)
         IN IF Tail(tokens) = <<>> THEN one
            ELSE one \o <<" ">> \o List2Cmdline(Tail(tokens))

\* run's conversion of args or extra: a string is split, a list is taken as
\* it is, None stays None
AsTokens(v) ==
    IF v.t = "str"
    THEN LET r == ShlexSplit(v.s)
         IN [exc |-> r.exc, value |-> IF r.exc = "" THEN List(r.tokens) ELSE None]
    ELSE [exc |-> "", value |-> v]

\* the extra tokens in front
ConcatExtraFirst(args_list, extra_list) ==
    [result |-> extra_list \o args_list, left |-> args_list]

\* [*args_list, *extra_list]: a new list, the operands are left as they were
Concat(args_list, extra_list) ==
    [result |-> args_list \o extra_list, left |-> args_list]

Event(ev, data) == [ev |-> ev, data |-> data]

\* subprocess.call with a keyword option of run's own
CallEventShell(argv, kwargs, rc) ==
    [ev |-> "call", data |-> argv,
     kw |-> kwargs \cup {<<"shell", Bool(FALSE)>>}, status |-> rc]

\* subprocess.call(argv, **kwargs), which returned the status rc
CallEvent(argv, kwargs, rc) ==
    [ev |-> "call", data |-> argv, kw |-> kwargs, status |-> rc]

\* subprocess.check_call in the place of subprocess.call
RunReturnChecked(rc) ==
    IF rc # 0 THEN [exc |-> "CalledProcessError", value |-> None]
    ELSE [exc |-> "", value |-> rc]

\* line 445: return subprocess.call(...)
RunReturn(rc) == [exc |-> "", value |-> rc]

\* echoes after the child has been started
RunTraceEchoLast(echo, args_list, kwargs, rc) ==
    <<CallEvent(args_list, kwargs, rc)>>
    \o (IF echo
        THEN <<Event("log", Logged("96", " -> {cmdline}\n",
                                    List2Cmdline(args_list), <<>>))>>
        ELSE <<>>)

\* lines 442-445: the echo, then subprocess.call
RunTrace(echo, args_list, kwargs, rc) ==
    (IF echo
     THEN <<Event("log", Logged("96", " -> {cmdline}\n",
                                 List2Cmdline(args_list), <<>>))>>
     ELSE <<>>)
    \o <<CallEvent(args_list, kwargs, rc)>>

cA == <<"a">>
cQ == <<"\"", "a", " ", "a", "\"">>

\* commands and extras handed to run
RunCommands ==
    {Str(c) : c \in SeqsUpTo(CmdChars, MaxCmd)}
    \cup {List(<<>>), List(<<cA>>), List(<<cA, cA>>), List(<<cA, cQ>>)}

RunExtras ==
    {None, Str(<<>>), Str(<<"a">>), Str(<<"a", " ", "a">>), Str(<<"\"">>),
     List(<<>>), List(<<cA>>), List(<<cQ, cA>>)}

\* exit statuses of the child process
ReturnCodes == {0, 1, 255}

sTmp == <<"/", "t", "m", "p">>

\* keyword options handed to run besides extra and echo
RunKwargs == {{}, {<<"cwd", Str(sTmp)>>, <<"shell", Bool(TRUE)>>}}

\* run(args, extra, echo, **kwargs): rc is the status the child exits with
Run(args, extra, echo, kwargs, rc) ==
    /\ lib.op = "none"
    /\ LET input == [args |-> args, extra |-> extra, echo |-> echo,
                     kwargs |-> kwargs]
           a == AsTokens(args)
           e == AsTokens(extra)
           raised(exc) == LibOutcome("run", "raise", exc, input, None, args, <<>>)
       IN IF a.exc # "" THEN lib' = raised(a.exc) /\ log' = <<>>
          ELSE IF e.exc # "" THEN lib' = raised(e.exc) /\ log' = <<>>
          ELSE LET c == IF e.value # None
                        THEN Concat(a.value.l, e.value.l)
                        ELSE [result |-> a.value.l, left |-> a.value.l]
                   trace == RunTrace(echo, c.result, kwargs, rc)
                   logged == SelectSeq(trace, LAMBDA ev : ev.ev = "log")
                   r == RunReturn(rc)
               IN /\ lib' = LibOutcome("run",
                                       IF r.exc = "" THEN "return" ELSE "raise",
                                       r.exc, input, r.value,
                                       IF args.t = "list" THEN List(c.left)
                                       ELSE args,
                                       trace)
                  /\ log' = [k \in 1..Len(logged) |-> logged[k].data]
    /\ UNCHANGED <<dockerman, dupParserRaises, sysargv, parsers, subparsers, tasks,
                   taskKeys, out, nreg, calls, last>>

----------------------------------------------------------------------------
(* The dockerman package: its module-level state, command, run, crun, help *)
(* and main.  What the functions print is kept as events of lib.trace,     *)
(* named by the logging function that was called.                          *)

sWeb == <<"w", "e", "b">>
sDb == <<"d", "b">>
sSh == <<"s", "h">>
sPs == <<"p", "s">>
sUp == <<"u", "p">>
sDo == <<".", "/", "d", "o">>
sZz == <<"z", "z">>

\* Config.__init__
Config ==
    [default_command |-> None, default_container |-> None, prog_name |-> sDo,
     splash |-> <<>>]

\* the wrapper that command() stores for a function
Wrapper(ident, command_name, passthrough, hidden) ==
    [ident |-> ident, command_name |-> command_name,
     passthrough |-> passthrough, hidden |-> hidden]

\* the package after import: the module has no attribute default_container,
\* config is a fresh Config and the hidden command help is registered
DockermanInit ==
    [attrs |-> <<>>, config |-> Config, subparsers |-> {sHelp},
     parsers |-> Put(<<>>, sHelp, Wrapper(sHelp, sHelp, FALSE, TRUE))]

\* one application of command(passthrough=..., default=...) to a function
\* whose body is `return crun(<its name>, args)`
CommandDecl(ident, passthrough, default) ==
    [ident |-> ident, passthrough |-> passthrough, default |-> default]

CommandDecls ==
    { CommandDecl(sSh, FALSE, FALSE),
      CommandDecl(sPs, TRUE, TRUE),
      CommandDecl(sUp, FALSE, TRUE) }

DmLog(level, fmt, a) == [ev |-> "log", level |-> level, fmt |-> fmt, a |-> a]

\* sorted(parsers.items()) over the names that occur here
SortedNames == <<sHelp, sPs, sSh, sUp>>

\* help(opts, args)
Help(dm) ==
    LET shown(n) == n \in DOMAIN dm.parsers /\ ~dm.parsers[n].hidden
        names == SelectSeq(SortedNames, shown)
    IN (IF dm.config.splash # <<>>
        THEN <<DmLog("debug", "{msg}", dm.config.splash), DmLog("endc", "", <<>>)>>
        ELSE <<>>)
       \o <<DmLog("endc", "Usage: {config.prog_name} [command]\n", dm.config.prog_name),
            DmLog("endc", "Available commands:\n", <<>>)>>
       \o [k \in 1..Len(names) |->
             DmLog("endc", "  {name:<22} {func.__doc__}", names[k])]

RECURSIVE JoinArgs(_)
\* " ".join([f'"{arg}"' if " " in arg else arg for arg in args])
JoinArgs(l) ==
    IF l = <<>> THEN <<>>
    ELSE (IF \E i \in 1..Len(Head(l)) : Head(l)[i] = " "
          THEN <<"\"">> \o Head(l) \o <<"\"">> ELSE Head(l))
         \o (IF Tail(l) = <<>> THEN <<>> ELSE <<" ">> \o JoinArgs(Tail(l)))

\* dockerman.run(cmd, args, echo, logstatus); rc is the status of the shell
DmRun(cmd, args, echo, logstatus, rc) ==
    LET joined == IF Truthy(args) THEN JoinArgs(args.l) ELSE <<>>
        command == cmd \o <<" ">> \o joined
    IN [exc |-> "", value |-> rc,
        trace |->
          (IF echo THEN <<DmLog("debug", " -> {msg}", command)>> ELSE <<>>)
          \o <<[ev |-> "call", data |-> command, shell |-> TRUE, status |-> rc]>>
          \o (IF logstatus
              THEN <<DmLog("endc", "", <<>>),
                     IF rc # 0
                     THEN DmLog("error", "ERROR: Command exited with a non-zero exit code: {code}", rc)
                     ELSE DmLog("info", "Command completed without any errors.", <<>>)>>
              ELSE <<>>)]

\* what `docker inspect` can do: print true, print something else, exit with
\* a non-zero status, or not be there to be started
InspectOutcomes == {"true", "false", "CalledProcessError", "FileNotFoundError"}

DmReturnCodes == {0, 1}

\* crun(cmd, args, container, echo, logstatus) with the module's config cfg
CrunCall(cfg, cmd, args, container, echo, logstatus, inspect, rc) ==
    LET c == IF container = None THEN cfg.default_container ELSE container
        inspected == [ev |-> "check_output",
                      data |-> <<"docker", "inspect", "--format",
                                 "{{.State.Running}}", c.s>>]
        r == DmRun(<<"d", "o", "c", "k", "e", "r", " ", "e", "x", "e", "c", " ",
                     "-", "i", "t", " ">> \o c.s \o <<" ">> \o cmd,
                   args, echo, logstatus, rc)
    IN IF container = None /\ ~Truthy(c)
       THEN [exc |-> "AttributeError", value |-> None, trace |-> <<>>]
       ELSE IF inspect = "FileNotFoundError"
       THEN [exc |-> "FileNotFoundError", value |-> None, trace |-> <<inspected>>]
       ELSE IF inspect # "true"
       THEN [exc |-> "", value |-> None,
             trace |-> <<inspected,
                         DmLog("error", "ERROR: The \"{container}\" container does not appear to be running. Try \"docker-compose up -d\".", c.s)>>]
       ELSE [exc |-> "", value |-> r.value, trace |-> <<inspected>> \o r.trace]

\* the body of a command function: help prints the listing, every other one
\* is `return crun(<its name>, args)`
Body(dm, ident, args, inspect, rc) ==
    IF ident = sHelp
    THEN [exc |-> "", value |-> None, trace |-> Help(dm)]
    ELSE CrunCall(dm.config, ident, args, None, TRUE, FALSE, inspect, rc)

\* @command(passthrough=c.passthrough, default=c.default) applied to a
\* function that no command was made of yet
Command(c) ==
    /\ lib.kind # "exit"
    /\ LET name == Replace(c.ident, <<"_">>, <<"-">>)
           wrapper == Wrapper(c.ident, name, c.passthrough, FALSE)
       IN /\ name \notin dockerman.subparsers
          /\ IF c.default /\ Truthy(dockerman.config.default_command)
             THEN /\ dockerman' = [dockerman EXCEPT !.subparsers = @ \cup {name}]
                  /\ lib' = LibOutcome("command", "raise", "ValueError", c,
                                       None, None, <<>>)
             ELSE /\ dockerman' =
                       [dockerman EXCEPT
                          !.subparsers = @ \cup {name},
                          !.config.default_command =
                              IF c.default THEN Func(wrapper) ELSE @,
                          !.parsers = Put(@, name, wrapper)]
                  /\ lib' = LibOutcome("command", "return", "", c, None, None,
                                       <<>>)
    /\ UNCHANGED <<dupParserRaises, sysargv, parsers, subparsers, tasks,
                   taskKeys, log, out, nreg, calls, last>>

\* dockerman.set_default_container(name)
SetDefaultContainer(name) ==
    /\ lib.kind # "exit"
    /\ dockerman' = [dockerman EXCEPT
                       !.attrs = Put(@, "default_container", Str(name))]
    /\ lib' = LibOutcome("set_default_container", "return", "", Str(name),
                         None, None, <<>>)
    /\ UNCHANGED <<dupParserRaises, sysargv, parsers, subparsers, tasks,
                   taskKeys, log, out, nreg, calls, last>>

\* crun(cmd, args, container, echo, logstatus) called by the script
Crun(cmd, args, container, echo, logstatus, inspect, rc) ==
    /\ lib.kind # "exit"
    /\ LET r == CrunCall(dockerman.config, cmd, args, container, echo,
                         logstatus, inspect, rc)
       IN lib' = LibOutcome("crun", IF r.exc = "" THEN "return" ELSE "raise",
                            r.exc,
                            [cmd |-> cmd, args |-> args, container |-> container,
                             echo |-> echo, logstatus |-> logstatus],
                            r.value, None, r.trace)
    /\ UNCHANGED <<dockerman, dupParserRaises, sysargv, parsers, subparsers,
                   tasks, taskKeys, log, out, nreg, calls, last>>

\* main(default_container=default_container, splash=splash), prog_name left
\* at its default; inspect and rc are what docker does when a command runs
Main(default_container, splash, inspect, rc) ==
    /\ lib.kind # "exit"
    /\ LET dm == [dockerman EXCEPT
                    !.config.prog_name = sDo,
                    !.config.default_container = default_container,
                    !.config.splash = splash]
           default == IF Truthy(dm.config.default_command)
                      THEN Str(dm.config.default_command.f.command_name)
                      ELSE None
           known == sysargv # <<>> /\ sysargv[1] \in DOMAIN dm.parsers
           args == IF known /\ dm.parsers[sysargv[1]].passthrough
                   THEN Tail(sysargv) ELSE sysargv
           command == IF known THEN Str(dm.parsers[sysargv[1]].command_name)
                      ELSE default
           input == [default_container |-> default_container, splash |-> splash]
           ended(kind, exc, value, trace) ==
               LibOutcome("main", kind, exc, input, value, None, trace)
           after(b, exits) ==
               IF b.exc # "" THEN ended("raise", b.exc, None, b.trace)
               ELSE IF exits THEN ended("exit", "SystemExit", 0, b.trace)
               ELSE ended("return", "", None, b.trace)
       IN /\ dockerman' = dm
          /\ lib' =
               IF /\ Truthy(command) /\ dm.parsers[command.s].passthrough
                  /\ sysargv # <<>>
               THEN after(Body(dm, dm.parsers[command.s].ident, List(args),
                               inspect, rc), TRUE)
               ELSE IF args = <<>>
               THEN ended("exit", "SystemExit", 1, Help(dm))
               ELSE IF args[1] \notin dm.subparsers
               THEN ended("exit", "SystemExit", 2, <<>>)
               ELSE IF Tail(args) # <<>>
               THEN ended("exit", "SystemExit", 1, Help(dm))
               ELSE after(Body(dm, Replace(args[1], <<"-">>, <<"_">>),
                               List(<<>>), inspect, rc), FALSE)
    /\ UNCHANGED <<dupParserRaises, sysargv, parsers, subparsers, tasks,
                   taskKeys, log, out, nreg, calls, last>>

DmNames == {sDb}
DmContainers == {None, Str(sWeb)}
DmArgs == {None, List(<<<<"a">>, <<"a", " ", "b">>>>)}
DmSplashes == {<<>>, sBanner}
DmArgvs == {<<>>, <<sSh>>, <<sPs>>, <<sPs, <<"a">>>>, <<sSh, <<"a">>>>, <<sUp>>,
            <<sHelp>>, <<sZz>>}

----------------------------------------------------------------------------

SysArgvs == {<<>>, <<sHello>>}

Init ==
    /\ dupParserRaises \in BOOLEAN
    /\ sysargv \in SysArgvs
    /\ parsers = <<>>
    /\ subparsers = <<>>
    /\ tasks = <<>>
    /\ taskKeys = <<>>
    /\ log = <<>>
    /\ out = <<>>
    /\ nreg = 0
    /\ calls = <<>>
    /\ last = Outcome("none", "none", "", 0, None, None, None)
    /\ lib = NoLib
    /\ dockerman = DockermanInit

Next ==
    \/ \E d \in Decls : Register(d)
    \/ \E a \in ExecInputs, sp \in Splashes : Exec(a, sp)
    \/ ReturnToCaller

Spec == Init /\ [][Next]_vars

\* a fresh manager on which the constructors, short_doc and run are called
InitLib ==
    /\ Init
    /\ ~dupParserRaises
    /\ sysargv = <<>>

NextLib ==
    \/ \E flags \in FlagLists : MakeArg(flags)
    \/ \E items \in SeqsUpTo(Items, MaxItems) : MakeGrp(items)
    \/ \E items \in SeqsUpTo(Items, MaxItems), required \in BOOLEAN :
          MakeMuxGrp(items, required)
    \/ \E doc \in Docs : TaskShortDoc(doc)
    \/ \E args \in RunCommands, extra \in RunExtras, echo \in BOOLEAN,
          kwargs \in RunKwargs, rc \in ReturnCodes :
          Run(args, extra, echo, kwargs, rc)

SpecLib == InitLib /\ [][NextLib]_vars

\* a script that uses the dockerman package
InitDockerman ==
    /\ dupParserRaises = TRUE
    /\ sysargv \in DmArgvs
    /\ parsers = <<>>
    /\ subparsers = <<>>
    /\ tasks = <<>>
    /\ taskKeys = <<>>
    /\ log = <<>>
    /\ out = <<>>
    /\ nreg = 0
    /\ calls = <<>>
    /\ last = Outcome("none", "none", "", 0, None, None, None)
    /\ lib = NoLib
    /\ dockerman = DockermanInit

NextDockerman ==
    \/ \E c \in CommandDecls : Command(c)
    \/ \E name \in DmNames : SetDefaultContainer(name)
    \/ \E container \in DmContainers, splash \in DmSplashes,
          inspect \in InspectOutcomes, rc \in DmReturnCodes :
          Main(container, splash, inspect, rc)
    \/ \E args \in DmArgs, container \in DmContainers, echo \in BOOLEAN,
          logstatus \in BOOLEAN, inspect \in InspectOutcomes,
          rc \in DmReturnCodes :
          Crun(sSh, args, container, echo, logstatus, inspect, rc)

SpecDockerman == InitDockerman /\ [][NextDockerman]_vars

----------------------------------------------------------------------------
(* Properties *)

\* the argument vector the last exec worked on
EffArgs == IF Truthy(last.argv) THEN last.argv.l ELSE sysargv

kHello == <<"h", "e", "l", "l", "o">>
kSuper == <<"s", "u", "p", "e", "r", ":", "h", "e", "l", "l", "o", "-", "w", "o", "r", "l", "d">>
kTriple == <<"a", ":", "-", "b">>
kHwo == <<"h", "e", "l", "l", "o", "-", "w", "o", "r", "l", "d", "-", "o", "n", "e">>
kMuxReq == <<"m", "u", "x", "-", "r", "e", "q">>

\* the registry keys the tests and the documentation expect, written out
C1_Expected(ident) ==
    CASE ident = sSuper -> kSuper
      [] ident = sTriple -> kTriple
      [] ident = sHwo -> kHwo
      [] ident = sMuxReq -> kMuxReq
      [] OTHER -> ident

\* C1: a function decorated without an explicit name is stored under its
\* identifier with every "__" turned into ":" first and every "_" that is left
\* turned into "-" (super__hello_world under super:hello-world, hello_world_one
\* under hello-world-one), and the Task stored there holds that function.
C1_DerivedNameKey ==
    (last.op = "task" /\ last.kind = "return" /\ last.decl.name = None)
    => /\ C1_Expected(last.decl.func.ident) \in DOMAIN tasks
       /\ tasks[C1_Expected(last.decl.func.ident)].func = last.decl.func

C1_Witness ==
    /\ last.op = "task" /\ last.kind = "return"
    /\ last.decl.func = fSuper
    /\ kSuper \in DOMAIN tasks
    /\ tasks[kSuper].func = fSuper

\* C2: applying the decorator to a callable with more than two parameters
\* raises the invalid-arity exception, no callable with such a parameter count
\* is ever invoked, and none is ever stored in tasks.
C2_InvalidArityRaises ==
    /\ (last.op = "task" /\ last.decl.func.nparams \notin {0, 1, 2})
       => (last.kind = "raise" /\ last.exc = "InvalidArgumentCountException")
    /\ \A n \in DOMAIN tasks : tasks[n].func.nparams \in {0, 1, 2}
    /\ \A i \in 1..Len(calls) : calls[i].func.nparams \in {0, 1, 2}

\* C3: exec invokes the callable by its arity: no argument for 0 parameters,
\* the options object alone for 1, the options object and the extra list for
\* 2; that list is empty, never None, when there is no extra argument and
\* whenever the task was registered with allow_extra=False.
C3_CallByArity ==
    \A i \in 1..Len(calls) :
        LET c == calls[i]
            t == tasks[EffArgs[1]]
        IN /\ t.num_args = c.func.nparams
           /\ c.func.nparams = 0 => c.args = <<>>
           /\ c.func.nparams = 1 =>
                 (Len(c.args) = 1 /\ c.args[1].t = "namespace")
           /\ c.func.nparams = 2 =>
                 /\ Len(c.args) = 2
                 /\ c.args[1].t = "namespace"
                 /\ c.args[2].t = "list"
                 /\ (~t.allow_extra \/ Len(EffArgs) = 1) => c.args[2] = List(<<>>)

C3_Witness ==
    /\ last.op = "exec" /\ last.kind = "return"
    /\ Len(calls) = 1
    /\ calls[1].func = fMux
    /\ ~tasks[sMux].allow_extra
    /\ calls[1].args[2] = List(<<>>)

\* does argparse accept the vector given to the last exec
C4_Parses ==
    LET args == last.argv.l
        r == IF tasks[args[1]].allow_extra
             THEN TopParseKnownArgs(parsers, args)
             ELSE TopParseArgs(parsers, args)
    IN r.status = "ok"

\* C4: when the first element of the vector given to exec is a registered task
\* name other than -h and help, and the rest parses, exec returns the value the
\* task's callable returned and the process is not terminated.
C4_ReturnsTaskValue ==
    (/\ last.op = "exec"
     /\ Truthy(last.argv)
     /\ last.argv.l[1] \in DOMAIN tasks \ {tH, sHelp}
     /\ C4_Parses)
    => /\ last.kind = "return"
       /\ Len(calls) = 1
       /\ calls[1].func = tasks[last.argv.l[1]].func
       /\ last.value = tasks[last.argv.l[1]].func.ret

C4_Witness ==
    /\ last.op = "exec" /\ last.kind = "return"
    /\ last.argv = List(<<kSuper, tName, tW>>)
    /\ last.value = fSuper.ret
    /\ Len(calls) = 1
    /\ calls[1].args[1].ns[<<"n", "a", "m", "e">>] = Str(tW)

\* C5: when the first element of the vector given to exec is neither -h nor
\* help nor a key of tasks, exec logs the error line "Invalid command: <name>",
\* then the task listing without banner and without usage line, and exits with
\* status 1; no task callable is invoked.
C5_UnknownCommand ==
    (/\ last.op = "exec"
     /\ Truthy(last.argv)
     /\ last.argv.l[1] \notin DOMAIN tasks \cup {tH, sHelp})
    => /\ last.kind = "exit"
       /\ last.status = 1
       /\ calls = <<>>
       /\ Len(log) = Len(taskKeys) + 3
       /\ log[1] = Logged("91", "ERROR: Invalid command: {args[0]}\n",
                          last.argv.l[1], <<>>)
       /\ log[2] = Logged("0", "Available tasks:\n", <<>>, <<>>)
       /\ \A k \in 1..Len(taskKeys) :
             /\ log[2 + k].a = taskKeys[k]
             /\ log[2 + k].b = ShortDoc(tasks[taskKeys[k]].doc)
       /\ log[Len(log)] = Logged("0", "", <<>>, <<>>)

C5_Witness ==
    /\ last.op = "exec" /\ last.kind = "exit" /\ last.status = 1
    /\ last.argv = List(<<sNonexistent>>)
    /\ taskKeys # <<>>
    /\ Len(log) = Len(taskKeys) + 3

\* the last exec was given a vector whose first element is a registered task
\* name other than the help forms
ExecOfTask ==
    /\ last.op = "exec"
    /\ Truthy(last.argv)
    /\ last.argv.l[1] \in DOMAIN tasks \ {tH, sHelp}

GivenTask == tasks[last.argv.l[1]]
GivenParser == parsers[GivenTask.parser]
GivenTail == Tail(last.argv.l)

\* the declaration that registered the callable of that task
GivenDecl == CHOOSE d \in Decls : d.func = GivenTask.func

\* the tail holds an option-like token that matches nothing the parser knows
HasUnknownOption ==
    \E i \in 1..Len(GivenTail) : Classify(GivenParser, GivenTail[i]).cls = "O"

\* no token of the tail is an option the parser knows
NothingKnown ==
    \A i \in 1..Len(GivenTail) : Classify(GivenParser, GivenTail[i]).cls # "opt"

\* the parser has no required argument and no required group
NothingRequired ==
    /\ \A i \in 1..Len(GivenParser.actions) : ~GivenParser.actions[i].required
    /\ \A g \in 1..Len(GivenParser.mutex) : ~GivenParser.mutex[g].required

TaskHelpPrinted ==
    \E i \in 1..Len(out) :
        out[i] = Printed("stdout", "help", GivenParser.prog, "", <<>>)

ErrorPrinted ==
    /\ Len(out) = 2
    /\ out[1].stream = "stderr" /\ out[1].what = "usage"
    /\ out[2].stream = "stderr" /\ out[2].what = "error"

\* C6 as stated: a task registered with allow_extra=False, given an argument
\* it does not declare, has its help printed, the process exits with status 1
\* and the callable is not invoked.
C6_StrictExitsOne ==
    (ExecOfTask /\ ~GivenTask.allow_extra /\ HasUnknownOption)
    => /\ last.kind = "exit"
       /\ last.status = 1
       /\ TaskHelpPrinted
       /\ calls = <<>>

\* C6 amended: a task registered with allow_extra=False, given an argument it
\* does not declare, is not invoked and the process exits: with status 2 after
\* a usage line and an error message on stderr, those of the top-level parser
\* naming the unrecognized arguments when they are the only fault; or, when
\* -h is among the arguments and is reached first, with status 0 after the
\* task's help.
C6_StrictRejects ==
    (ExecOfTask /\ ~GivenTask.allow_extra /\ HasUnknownOption)
    => /\ last.kind = "exit"
       /\ calls = <<>>
       /\ last.status \in {0, 2}
       /\ last.status = 2 => ErrorPrinted
       /\ last.status = 0 =>
             (TaskHelpPrinted /\ \E i \in 1..Len(GivenTail) : GivenTail[i] = tH)
       /\ (NothingKnown /\ NothingRequired)
          => out = <<Printed("stderr", "usage", <<sProg>>, "", <<>>),
                     Printed("stderr", "error", <<sProg>>,
                             "unrecognized arguments", GivenTail)>>

C6_Witness ==
    /\ last.op = "exec" /\ last.kind = "exit" /\ last.status = 2
    /\ last.argv = List(<<kHello, tN, tW>>)
    /\ ~tasks[kHello].allow_extra
    /\ out[2].msg = "unrecognized arguments"
    /\ out[2].detail = <<tN, tW>>
    /\ calls = <<>>

\* the tokens of toks that match no argument declared by the task: neither a
\* declared option nor the value that follows a declared store option
RECURSIVE C7_Undeclared(_, _)
C7_Undeclared(p, toks) ==
    IF toks = <<>> THEN <<>>
    ELSE LET c == Classify(p, Head(toks))
             declared == c.cls = "opt" /\ p.actions[c.idx].kind # "help"
             takesNext == /\ declared
                          /\ p.actions[c.idx].kind = "store"
                          /\ c.explicit = None
                          /\ Len(toks) > 1
         IN IF takesNext THEN C7_Undeclared(p, Tail(Tail(toks)))
            ELSE IF declared THEN C7_Undeclared(p, Tail(toks))
            ELSE <<Head(toks)>> \o C7_Undeclared(p, Tail(toks))

\* C7 as stated: for a task registered with allow_extra=True, every argument
\* after the task name that matches no argument declared by the task reaches
\* the callable in the extra list, unchanged and in order, and the process
\* does not exit.
C7_ExtrasNeverExit ==
    (ExecOfTask /\ GivenTask.allow_extra /\ GivenTask.num_args = 2)
    => /\ last.kind = "return"
       /\ Len(calls) = 1
       /\ calls[1].args[2] = List(C7_Undeclared(GivenParser, GivenTail))

\* C7 amended: for a task registered with allow_extra=True, when exec returns
\* every argument after the task name that matches no declared argument has
\* reached the callable in the extra list, unchanged and in order, and the
\* declared ones are in the options object; exec returns whenever no token is
\* one the parser knows and nothing is required; otherwise the process may
\* exit without invoking the callable, with status 0 after the task's help
\* when -h is reached, with status 2 when a declared argument is malformed.
C7_ExtrasDelivered ==
    (ExecOfTask /\ GivenTask.allow_extra /\ GivenTask.num_args = 2)
    => /\ last.kind \in {"return", "exit"}
       /\ last.kind = "return" =>
             /\ Len(calls) = 1
             /\ calls[1].args[2] = List(C7_Undeclared(GivenParser, GivenTail))
             /\ \A i \in 1..Len(GivenParser.actions) :
                   LET a == GivenParser.actions[i]
                       given == \E k \in 1..Len(GivenTail) :
                                   GivenTail[k] = a.option_strings[1]
                   IN a.kind # "help" =>
                         /\ a.dest \in DOMAIN calls[1].args[1].ns
                         /\ given <=> calls[1].args[1].ns[a.dest] # a.default
       /\ last.kind = "exit" =>
             /\ calls = <<>>
             /\ last.status \in {0, 2}
             /\ last.status = 0 =>
                   (TaskHelpPrinted /\ \E i \in 1..Len(GivenTail) : GivenTail[i] = tH)
             /\ ~(NothingKnown /\ NothingRequired)
       /\ (NothingKnown /\ NothingRequired)
          => (last.kind = "return" /\ calls[1].args[2] = List(GivenTail))

C7_Witness ==
    /\ last.op = "exec" /\ last.kind = "return"
    /\ last.argv = List(<<kTriple, tN, tW>>)
    /\ tasks[kTriple].allow_extra
    /\ Len(calls) = 1
    /\ calls[1].args[2] = List(<<tN, tW>>)

\* the task of the last exec declares --name with required=True
RequiresName ==
    \E i \in 1..Len(GivenDecl.arguments) :
        /\ GivenDecl.arguments[i].cls = "Argument"
        /\ GivenDecl.arguments[i].required
        /\ GivenDecl.arguments[i].args = <<tName>>

NameGiven == \E i \in 1..Len(GivenTail) : BeforeEq(GivenTail[i]) = tName

\* C8 as stated: for a task declaring an argument with required=True, exec
\* with the flag supplied invokes the task and returns its value, and exec
\* without the flag exits with status 1 and never invokes the task.
C8_RequiredExitsOne ==
    (ExecOfTask /\ RequiresName)
    => /\ GivenTail = <<tName, tW>> =>
             (last.kind = "return" /\ Len(calls) = 1
              /\ last.value = GivenTask.func.ret)
       /\ ~NameGiven =>
             (last.kind = "exit" /\ last.status = 1 /\ calls = <<>>)

\* C8 amended: for a task declaring an argument with required=True, exec with
\* the flag and its value supplied invokes the task and returns its value;
\* exec without the flag never invokes the task and exits, with argparse's
\* error status 2 after "the following arguments are required" (with status 0
\* after the task's help when -h is given).
C8_RequiredEnforced ==
    (ExecOfTask /\ RequiresName)
    => /\ GivenTail = <<tName, tW>> =>
             /\ last.kind = "return"
             /\ Len(calls) = 1
             /\ calls[1].func = GivenTask.func
             /\ calls[1].args[1].ns[<<"n", "a", "m", "e">>] = Str(tW)
             /\ last.value = GivenTask.func.ret
       /\ ~NameGiven =>
             /\ last.kind = "exit"
             /\ calls = <<>>
             /\ last.status \in {0, 2}
             /\ last.status = 0 =>
                   (TaskHelpPrinted /\ \E i \in 1..Len(GivenTail) : GivenTail[i] = tH)
             /\ (\A i \in 1..Len(GivenTail) : GivenTail[i] # tH) =>
                   (last.status = 2 /\ ErrorPrinted)
             /\ GivenTail = <<>> =>
                   out[2] = Printed("stderr", "error", GivenParser.prog,
                                    "the following arguments are required",
                                    <<tName>>)

C8_Witness ==
    /\ last.op = "exec" /\ last.kind = "exit" /\ last.status = 2
    /\ last.argv = List(<<sReq>>)
    /\ sReq \in DOMAIN tasks
    /\ out[2].msg = "the following arguments are required"
    /\ calls = <<>>

\* the task of the last exec declares a MuxGroup and is given arguments of
\* that group only
OnlyMuxArguments ==
    /\ \E i \in 1..Len(GivenDecl.arguments) :
          GivenDecl.arguments[i].cls = "MuxGroup"
    /\ \A i \in 1..Len(GivenTail) : GivenTail[i] \in {tSizeL, tColorB}

MuxSupplied == {GivenTail[i] : i \in 1..Len(GivenTail)}

\* the MuxGroup was built with required=True
MuxRequired ==
    \E i \in 1..Len(GivenDecl.arguments) :
        /\ GivenDecl.arguments[i].cls = "MuxGroup"
        /\ GivenDecl.arguments[i].required

\* C9 as stated: for a task declaring a MuxGroup, two different arguments of
\* the group make the process exit with status 1 without invoking the task,
\* exactly one invokes it, and none, when the group is required, makes the
\* process exit without invoking the task.
C9_MuxExitsOne ==
    (ExecOfTask /\ OnlyMuxArguments)
    => /\ Cardinality(MuxSupplied) = 2 =>
             (last.kind = "exit" /\ last.status = 1 /\ calls = <<>>)
       /\ Cardinality(MuxSupplied) = 1 =>
             (last.kind = "return" /\ Len(calls) = 1)
       /\ (Cardinality(MuxSupplied) = 0 /\ MuxRequired) =>
             (last.kind = "exit" /\ calls = <<>>)

\* C9 amended: for a task declaring a MuxGroup, two different arguments of the
\* group make the process exit with argparse's error status 2 without invoking
\* the task, exactly one invokes it, and none, when the group was built with
\* required=True, makes the process exit with status 2 without invoking the
\* task (a group that is not required lets the task run).
C9_MuxEnforced ==
    (ExecOfTask /\ OnlyMuxArguments)
    => /\ Cardinality(MuxSupplied) = 2 =>
             /\ last.kind = "exit" /\ last.status = 2 /\ calls = <<>>
             /\ ErrorPrinted
             /\ out[2].msg = "not allowed with argument"
       /\ Cardinality(MuxSupplied) = 1 =>
             /\ last.kind = "return" /\ Len(calls) = 1
             /\ calls[1].func = GivenTask.func
             /\ last.value = GivenTask.func.ret
       /\ (Cardinality(MuxSupplied) = 0 /\ MuxRequired) =>
             /\ last.kind = "exit" /\ last.status = 2 /\ calls = <<>>
             /\ out[2].msg = "one of the arguments is required"
       /\ (Cardinality(MuxSupplied) = 0 /\ ~MuxRequired) =>
             (last.kind = "return" /\ Len(calls) = 1)

C9_Witness ==
    /\ last.op = "exec" /\ last.kind = "exit" /\ last.status = 2
    /\ last.argv = List(<<sMux, tSizeL, tColorB>>)
    /\ out[2].msg = "not allowed with argument"
    /\ calls = <<>>

\* C10: when the vector given to exec is empty, or is -h or help alone, exec
\* logs the banner when there is one, the usage line and the listing of the
\* registered tasks with their summaries, and returns without invoking a task
\* callable and without terminating the process, whatever sys.argv holds.
C10_BareHelpReturns ==
    (/\ last.op = "exec"
     /\ last.argv \in {List(<<>>), List(<<tH>>), List(<<sHelp>>)})
    => /\ last.kind = "return"
       /\ calls = <<>>
       /\ \E i \in 1..Len(log) :
             /\ log[i] = Logged("0", "Usage: {name} [task]\n", sProg, <<>>)
             /\ Len(log) = i + Len(taskKeys) + 2
             /\ log[i + 1] = Logged("0", "Available tasks:\n", <<>>, <<>>)
             /\ \A k \in 1..Len(taskKeys) :
                   /\ log[i + 1 + k].a = taskKeys[k]
                   /\ log[i + 1 + k].b = ShortDoc(tasks[taskKeys[k]].doc)

\* the last exec worked on a help form followed by at least one more element
HelpWithTopic ==
    /\ last.op = "exec"
    /\ Len(EffArgs) > 1
    /\ EffArgs[1] = sHelp

\* C11: exec given `help <taskname>` prints the help of that task's own parser
\* and not the general listing when <taskname> is a key of tasks, and prints
\* the banner (when there is one), the usage line and the listing when it is
\* not; in both cases exec returns, no task is invoked and the unknown-command
\* exit is not taken.
C11_HelpTopic ==
    HelpWithTopic
    => /\ last.kind = "return"
       /\ calls = <<>>
       /\ EffArgs[2] \in DOMAIN tasks =>
             /\ out = <<Printed("stdout", "help",
                                parsers[tasks[EffArgs[2]].parser].prog, "", <<>>)>>
             /\ parsers[tasks[EffArgs[2]].parser].prog = <<sProg, EffArgs[2]>>
             /\ log = <<>>
       /\ EffArgs[2] \notin DOMAIN tasks =>
             /\ out = <<>>
             /\ \E sp \in Splashes : log = PrintHelp(sProg, sp.s, TRUE)
             /\ \A i \in 1..Len(log) : log[i].color # "91"

C11_Witness ==
    /\ last.op = "exec" /\ last.kind = "return"
    /\ last.argv = List(<<sHelp, kSuper>>)
    /\ kSuper \in DOMAIN tasks
    /\ out = <<Printed("stdout", "help", <<sProg, kSuper>>, "", <<>>)>>

\* C12: applying the decorator under a name that is already a key of tasks
\* (with another callable, of valid arity) raises no error and replaces the entry:
\* afterwards tasks[name].func is the second callable and tasks has the same
\* keys as before.
C12_DuplicateReplaces ==
    [][(/\ nreg' = nreg + 1
        /\ TaskName(last'.decl) \in DOMAIN tasks
        /\ tasks[TaskName(last'.decl)].func # last'.decl.func
        /\ ValidateAndGetNumArgs(last'.decl.func).exc = "")
       => /\ last'.kind = "return"
          /\ tasks'[TaskName(last'.decl)].func = last'.decl.func
          /\ DOMAIN tasks' = DOMAIN tasks]_vars

\* did the last exec hand its vector to argparse and did argparse accept it;
\* a vector that starts with -h or help is answered before any parsing
C13_Parses ==
    LET r == IF tasks[EffArgs[1]].allow_extra
             THEN TopParseKnownArgs(parsers, EffArgs)
             ELSE TopParseArgs(parsers, EffArgs)
    IN EffArgs[1] \notin {tH, sHelp} /\ r.status = "ok"

RECURSIVE HoldsGroup(_)
\* item is a Group, or a MuxGroup with a Group somewhere inside
HoldsGroup(item) ==
    \/ item.cls = "Group"
    \/ /\ item.cls = "MuxGroup"
       /\ \E i \in 1..Len(item.args) : HoldsGroup(item.args[i])

\* C14: a Group that was constructed holds no Group among its items, directly
\* or inside a MuxGroup it holds, and a MuxGroup that was constructed holds
\* neither a Group nor a MuxGroup; grp given a Group raises, muxgrp given a
\* Group or a MuxGroup raises, at the call itself and with no task registered.
C14_NoNestedGroups ==
    /\ (lib.op = "grp" /\ lib.kind = "return")
       => \A i \in 1..Len(lib.value.args) : ~HoldsGroup(lib.value.args[i])
    /\ (lib.op = "muxgrp" /\ lib.kind = "return")
       => \A i \in 1..Len(lib.value.args) :
             lib.value.args[i].cls \notin {"Group", "MuxGroup"}
    /\ (lib.op = "grp" /\ \E i \in 1..Len(lib.input) : lib.input[i].cls = "Group")
       => (lib.kind = "raise" /\ lib.exc = "ValueError" /\ tasks = <<>>)
    /\ (/\ lib.op = "muxgrp"
        /\ \E i \in 1..Len(lib.input) : lib.input[i].cls \in {"Group", "MuxGroup"})
       => (lib.kind = "raise" /\ lib.exc = "ValueError" /\ tasks = <<>>)

C14_Witness ==
    /\ lib.op = "grp" /\ lib.kind = "raise"
    /\ Len(lib.input) = 2
    /\ lib.input[1] = aName
    /\ lib.input[2].cls = "Group"
    /\ Len(lib.input[2].args) = 1
    /\ lib.input[2].args[1].cls = "MuxGroup"

\* C15: arg called with no flags fails at the call, so that no Argument with
\* an empty sequence of flags comes to exist.
C15_EmptyFlagsRejected ==
    (lib.op = "arg" /\ lib.input = <<>>) => lib.kind = "raise"

\* the first line of a documentation string
C16_FirstLine(d) ==
    CHOOSE l \in {SubSeq(d, 1, k) : k \in 0..Len(d)} :
        /\ \A i \in 1..Len(l) : l[i] # "\n"
        /\ Len(l) < Len(d) => d[Len(l) + 1] = "\n"

\* C16: short_doc is the first line of the callable's documentation string,
\* less one period when that line ends in a period, and the empty string when
\* the callable has no documentation.
C16_ShortDoc ==
    lib.op = "short_doc"
    => /\ lib.kind = "return"
       /\ lib.input = None => lib.value = Str(<<>>)
       /\ lib.input # None =>
             LET line == C16_FirstLine(lib.input.s)
                 n == Len(line)
             IN IF n > 0 /\ line[n] = "."
                THEN lib.value = Str(SubSeq(line, 1, n - 1))
                ELSE lib.value = Str(line)

C16_Witness ==
    /\ lib.op = "short_doc"
    /\ lib.input = Str(<<"a", ".", ".", "\n">>)
    /\ lib.value = Str(<<"a", ".">>)

\* C17: for every argument a task declares with a default, whatever its
\* action, executing the task without that flag delivers the declared default
\* as the value of that option in the options object.
C17_DefaultsDelivered ==
    (ExecOfTask /\ last.kind = "return" /\ GivenTask.num_args >= 1)
    => \A i \in 1..Len(GivenDecl.arguments) :
          LET a == GivenDecl.arguments[i]
          IN (/\ a.cls = "Argument"
              /\ a.default # None
              /\ \A k \in 1..Len(GivenTail), f \in 1..Len(a.args) :
                    GivenTail[k] # a.args[f])
             => calls[1].args[1].ns[DestOf(a.args)] = a.default

\* the token sequence the last run handed to subprocess.call
Executed ==
    LET k == CHOOSE k \in 1..Len(lib.trace) : lib.trace[k].ev = "call"
    IN lib.trace[k].data

\* positions of the double quotes of s, in order
QuotePositions(s) ==
    LET Q == {i \in 1..Len(s) : s[i] = "\""}
    IN [n \in 1..Cardinality(Q) |->
           CHOOSE i \in Q : Cardinality({j \in Q : j < i}) = n - 1]

\* sub occurs in t as a run of consecutive characters
OccursIn(sub, t) ==
    \E k \in 0..(Len(t) - Len(sub)) : SubSeq(t, k + 1, k + Len(sub)) = sub

\* C18: run splits a command given as a string into words, keeping every
\* quoted substring, quotes included, inside one token (`ls "-lh foo"` runs
\* as ls and "-lh foo"); a command given as a list is run with its tokens as
\* they are.
C18_QuotedKept ==
    (lib.op = "run" /\ lib.input.extra = None)
    => /\ lib.input.args.t = "list" =>
             (lib.kind = "return" /\ Executed = lib.input.args.l)
       /\ (/\ lib.input.args.t = "str"
           /\ Len(QuotePositions(lib.input.args.s)) % 2 = 0)
          => /\ lib.kind = "return"
             /\ LET s == lib.input.args.s
                    q == QuotePositions(s)
                IN \A n \in 1..Len(q) :
                      n % 2 = 1 =>
                         \E k \in 1..Len(Executed) :
                            OccursIn(SubSeq(s, q[n], q[n + 1]), Executed[k])

\* the tokens of a command or an extra as run reads them
C19_Tokens(v) ==
    IF v = None THEN <<>>
    ELSE IF v.t = "list" THEN v.l
    ELSE ShlexSplit(v.s).tokens

\* C19: whether the command and the extra are given as strings or as lists
\* (or the extra as None), run executes the tokens of the command followed by
\* the tokens of the extra, None adding nothing, so that the same tokens given
\* in either form run the same sequence; the caller's command list is left as
\* it was.
C19_CommandThenExtra ==
    (lib.op = "run" /\ lib.kind = "return")
    => /\ Cardinality({k \in 1..Len(lib.trace) : lib.trace[k].ev = "call"}) = 1
       /\ Executed = C19_Tokens(lib.input.args) \o C19_Tokens(lib.input.extra)
       /\ lib.after = lib.input.args

C19_Witness ==
    /\ lib.op = "run" /\ lib.kind = "return"
    /\ lib.input.args = List(<<cA, cQ>>)
    /\ lib.input.extra = Str(<<"a", " ", "a">>)
    /\ Executed = <<cA, cQ, cA, cA>>
    /\ lib.after = List(<<cA, cQ>>)

\* C20: when run starts the child with echo true, the command line has been
\* written to the logging sink exactly once, before the child was started;
\* with echo false run writes nothing to the logging sink.
C20_EchoBeforeCall ==
    lib.op = "run"
    => /\ ~lib.input.echo =>
             /\ log = <<>>
             /\ \A k \in 1..Len(lib.trace) : lib.trace[k].ev # "log"
       /\ (lib.input.echo /\ \E k \in 1..Len(lib.trace) : lib.trace[k].ev = "call")
          => /\ Len(lib.trace) = 2
             /\ lib.trace[1].ev = "log"
             /\ lib.trace[2].ev = "call"
             /\ log = <<Logged("96", " -> {cmdline}\n",
                               List2Cmdline(lib.trace[2].data), <<>>)>>

C20_Witness ==
    /\ lib.op = "run" /\ lib.kind = "return"
    /\ lib.input.echo
    /\ lib.input.args = List(<<cA, cQ>>)
    /\ lib.input.extra = None
    /\ log = <<Logged("96", " -> {cmdline}\n",
                      <<"a", " ", "\"", "\\", "\"", "a", " ", "a", "\\", "\"", "\"">>,
                      <<>>)>>

\* the call of subprocess.call the last run made
ChildCall == lib.trace[CHOOSE k \in 1..Len(lib.trace) : lib.trace[k].ev = "call"]

ChildStarted == \E k \in 1..Len(lib.trace) : lib.trace[k].ev = "call"

\* C21: run returns the exit status of the child, whatever that status is; a
\* status other than 0 makes run neither raise nor end the calling process.
C21_ReturnsStatus ==
    (lib.op = "run" /\ ChildStarted)
    => /\ lib.kind = "return"
       /\ lib.exc = ""
       /\ lib.value = ChildCall.status

C21_Witness ==
    /\ lib.op = "run" /\ lib.kind = "return"
    /\ lib.input.args = Str(<<"a">>)
    /\ ChildCall.status = 1
    /\ lib.value = 1

\* C22: every keyword option handed to run besides extra and echo reaches
\* subprocess.call as it was given, and run adds none of its own: without
\* such options subprocess.call receives the token list and nothing else.
C22_KwargsForwarded ==
    (lib.op = "run" /\ ChildStarted)
    => /\ ChildCall.kw = lib.input.kwargs
       /\ lib.input.kwargs = {} => ChildCall.kw = {}
       /\ ChildCall.data = Executed

C22_Witness ==
    /\ lib.op = "run" /\ lib.kind = "return"
    /\ lib.input.kwargs = {<<"cwd", Str(sTmp)>>, <<"shell", Bool(TRUE)>>}
    /\ ChildCall.kw = {<<"cwd", Str(sTmp)>>, <<"shell", Bool(TRUE)>>}
    /\ ChildCall.data = <<cA, cA>>

\* the declaration of the last registration holds a Group or MuxGroup, and
\* every child of its groups is an Argument
C23_Grouped(d) ==
    /\ \E i \in 1..Len(d.arguments) : d.arguments[i].cls # "Argument"
    /\ \A i \in 1..Len(d.arguments) :
          d.arguments[i].cls # "Argument"
          => \A j \in 1..Len(d.arguments[i].args) :
                d.arguments[i].args[j].cls = "Argument"

RECURSIVE C23_Direct(_)
\* the same descriptors with every child of a group given directly
C23_Direct(items) ==
    IF items = <<>> THEN <<>>
    ELSE (IF Head(items).cls = "Argument" THEN <<Head(items)>>
          ELSE Head(items).args) \o C23_Direct(Tail(items))

C23_Dests(p) == [i \in 1..Len(p.actions) |-> p.actions[i].dest]

\* C23: registering Argument descriptors as children of a Group or MuxGroup
\* succeeds exactly when registering the same descriptors directly on the task
\* succeeds, and the children then have the same destinations in the same
\* order as they have when given directly.
C23_GroupAsDirect ==
    (/\ last.op = "task" /\ nreg = 1
     /\ C23_Grouped(last.decl)
     /\ ValidateAndGetNumArgs(last.decl.func).exc = "")
    => LET d == last.decl
           direct == AddItems(NewParser(TaskName(d), d.func),
                              C23_Direct(d.arguments))
       IN /\ (last.kind = "return") <=> (direct.exc = "")
          /\ last.kind = "return"
             => C23_Dests(parsers[Len(parsers)]) = C23_Dests(direct.parser)

\* the declaration holds a Group that has a MuxGroup among its items
C24_Nested(d) ==
    \E i \in 1..Len(d.arguments) :
        /\ d.arguments[i].cls = "Group"
        /\ \E j \in 1..Len(d.arguments[i].args) :
              d.arguments[i].args[j].cls = "MuxGroup"

\* C24: registering a task with a Group that holds a MuxGroup succeeds and
\* makes the children of the MuxGroup mutually exclusive arguments of the
\* task's parser.
C24_GroupHoldsMux ==
    (/\ last.op = "task" /\ nreg = 1
     /\ C24_Nested(last.decl)
     /\ ValidateAndGetNumArgs(last.decl.func).exc = "")
    => /\ last.kind = "return"
       /\ TaskName(last.decl) \in DOMAIN tasks
       /\ LET p == parsers[tasks[TaskName(last.decl)].parser]
          IN /\ p.mutex # <<>>
             /\ \E i \in 1..Len(p.actions) :
                   p.actions[i].dest = DestOf(<<tSize>>) /\ p.actions[i].mux > 0

\* C25: whatever registrations (successful or failed) and exec calls came
\* before, every key of tasks maps to a Task that carries that key as its
\* name, has arity 0, 1 or 2, and whose parser is the subcommand parser the
\* top-level parser selects for that key.
C25_TasksConsistent ==
    \A n \in DOMAIN tasks :
        /\ tasks[n].name = n
        /\ tasks[n].num_args \in {0, 1, 2}
        /\ n \in DOMAIN subparsers
        /\ subparsers[n] = tasks[n].parser

\* C26: a registration that fails with the invalid-arity exception leaves the
\* manager as it was: tasks is unchanged and the parser tree has no new
\* subcommand.
C26_FailedArityNoEffect ==
    [][(nreg' = nreg + 1 /\ last'.exc = "InvalidArgumentCountException")
       => /\ tasks' = tasks
          /\ taskKeys' = taskKeys
          /\ subparsers' = subparsers
          /\ Len(parsers') = Len(parsers)]_vars

\* does the parser of the task named by a one-element vector accept it
C27_Accepts ==
    LET r == IF tasks[EffArgs[1]].allow_extra
             THEN TopParseKnownArgs(parsers, EffArgs)
             ELSE TopParseArgs(parsers, EffArgs)
    IN r.status = "ok"

\* C27: every key n of tasks can be dispatched, help and -h included: exec of
\* the one-element vector [n], when the task's parser accepts an empty
\* argument list, invokes the callable stored under n.
C27_Dispatchable ==
    (/\ last.op = "exec"
     /\ Len(EffArgs) = 1
     /\ EffArgs[1] \in DOMAIN tasks
     /\ C27_Accepts)
    => /\ Len(calls) = 1
       /\ calls[1].func = tasks[EffArgs[1]].func

\* C28: once set_default_container(name) has been called, a crun call with
\* container=None does not raise the missing-default AttributeError and asks
\* docker about the container `name`.
C28_DefaultContainerUsed ==
    (/\ lib.op = "crun"
     /\ lib.input.container = None
     /\ "default_container" \in DOMAIN dockerman.attrs)
    => /\ lib.exc # "AttributeError"
       /\ lib.trace # <<>>
       /\ lib.trace[1].ev = "check_output"
       /\ lib.trace[1].data[5] = dockerman.attrs["default_container"].s

====
